---- MODULE Spec2Model ----
(***************************************************************************)
(* CloudNET real-time layer.  The repository holds several rewrites of the *)
(* server; one of them runs in a deployment:                               *)
(*   "api1"   express + socket.io server backed by the in-memory store     *)
(*            (auth / join_chat / leave_chat / send_message, HTTP routes)  *)
(*   "rooms"  the presence server (join_room / leave_room / send_message)  *)
(*   "relay"  the raw WebSocket relay of the Vite dev server together with *)
(*            the CloudNetLayout WebSocket client                          *)
(***************************************************************************)
EXTENDS Integers, Sequences, FiniteSets, TLC

\* ----------------------------------------------------------------- bounds
\* ids handed out (messages persisted or relayed) in one behaviour
MaxMsgs == 2
\* events pushed by the presence server in one behaviour
MaxOut == 4
\* history fetches a CloudNetApp client has in flight at once
MaxFetches == 2
\* successful logins in one behaviour
MaxLogins == 2
\* accounts created in one CloudNetLayout session
MaxAccounts == 2
\* dm chats created in one behaviour
MaxDms == 4

\* ------------------------------------------------------------- input sets
None == "none"
Conns == {"c1", "c2", "c3"}
ApiConns == {"c1", "c3"}
Users == {"u1", "u2"}
General == "channel:general"
ChatIds == {General, "p1"}
Texts == {"hi"}
TokenInputs == {"", "t_u1", "t_u2"}

\* the password each person registers with, and the passwords tried at login
passwordOf == [u \in Users |-> "pw_" \o u]
Passwords == {"", "pw_u1", "pw_u2"}

\* createId("token_") at login: the tokens it returns, in the order of the calls
LoginTokens == <<"t_l1", "t_l2", "t_l3">>
LoginTokenSet == {LoginTokens[i] : i \in 1..Len(LoginTokens)}

\* the tokens a request may carry: none, each issued one, and one never issued
AnyToken == TokenInputs \cup LoginTokenSet \cup {"bogus"}

\* the person behind each client: u1 has two devices
owner == [c \in Conns |-> IF c = "c3" THEN "u2" ELSE "u1"]

VARIABLES
    server,        \* which rewrite of the server is running
    status,        \* per connection: "new" (not yet connected), "open", "closed"
    userId,        \* socket.data.userId of each connection
    joined,        \* socket.io adapter: the chat rooms each socket is in
    out,           \* per connection: the events emitted to it, in order
    users,         \* store: registered users; CloudNetLayout: its users state,
                   \* account id -> account
    authTokens,    \* store: token -> user id
    chats,         \* store: chat id -> chat
    messages,      \* store: chat id -> history (defined on the ids that have a list)
    idCount,       \* number of ids handed out by createId / randomUUID
    rooms,         \* presence server: room id -> set of user ids
    currentUser,   \* CloudNetLayout client: the logged-in account
    activeChatId,  \* CloudNetLayout client: the chat on screen
    list,          \* client: its messages state
    pending        \* per client, what it has in flight: the history fetches of
                   \* CloudNetApp, the frames CloudNetLayout sent to the relay

vars == <<server, status, userId, joined, out, users, authTokens, chats, messages,
          idCount, rooms, currentUser, activeChatId, list, pending>>

sockVars == <<status, userId, joined, out>>
storeVars == <<users, authTokens, chats, messages>>
clientVars == <<currentUser, activeChatId, list, pending>>

\* ------------------------------------------------------------------ store
generalChannel == [type |-> "channel", memberIds |-> {}]

\* createId("token_"): a fresh token, one per registration
createTokenForUser(u) == "t_" \o u

\* a lookup that resolves an unknown token to the holder of some issued one
getUserIdFromTokenLoose(token) ==
    IF token = "" THEN None
    ELSE IF token \in DOMAIN authTokens THEN authTokens[token]
    ELSE IF DOMAIN authTokens # {}
         THEN authTokens[CHOOSE t \in DOMAIN authTokens : TRUE]
         ELSE None

getUserIdFromToken(token) ==
    IF token = "" THEN None
    ELSE IF token \in DOMAIN authTokens THEN authTokens[token] ELSE None

\* usersByUsername.get(username) || null
getUserByUsername(username) == IF username \in users THEN username ELSE None

\* the number of tokens issued by logins so far
Logins == Cardinality(LoginTokenSet \cap DOMAIN authTokens)

getUserById(id) == IF id \in users THEN id ELSE None

getChat(chatId) == IF chatId \in DOMAIN chats THEN chatId ELSE None

getMessages(chatId) == IF chatId \in DOMAIN messages THEN messages[chatId] ELSE <<>>

\* the Message object built by store.addMessage (and the event that carries it)
NewMessage(chatId, senderId, content) ==
    [type |-> "message", id |-> idCount + 1, room |-> chatId,
     sender |-> senderId, content |-> content, users |-> {}]

PushNothing(history, msg) == history

PushFront(history, msg) == <<msg>> \o history

\* messages.get(chatId).push(msg)
Push(history, msg) == Append(history, msg)

\* store.addMessage: the histories after the push
addMessage(chatId, msg) ==
    [id \in DOMAIN messages \cup {chatId} |->
        IF id = chatId THEN Push(getMessages(chatId), msg) ELSE messages[id]]

\* store.createGC: the chats after the insert (id is the fresh createId("gc_"))
createGC(id, creatorId, memberIds) ==
    [x \in DOMAIN chats \cup {id} |->
        IF x = id THEN [type |-> "gc", memberIds |-> {creatorId} \cup memberIds]
        ELSE chats[x]]

\* createId("dm_"): the ids it returns, in the order of the calls
DmIds == <<"d1", "d2", "d3", "d4", "d5">>
DmIdSet == {DmIds[i] : i \in 1..Len(DmIds)}

Dms == {id \in DOMAIN chats : chats[id].type = "dm"}

\* the lookup of createDM with the second order of the pair left out
findDMOrdered(userA, userB) ==
    {id \in Dms : chats[id].userIds = <<userA, userB>>}

\* createDM: Array.from(chats.values()).find(...), as the set of matches
findDM(userA, userB) ==
    {id \in Dms : \/ chats[id].userIds = <<userA, userB>>
                  \/ chats[id].userIds = <<userB, userA>>}

\* createDM: the id of the chat it returns
createDMId(userA, userB) ==
    IF findDM(userA, userB) # {}
    THEN CHOOSE id \in findDM(userA, userB) :
            \A other \in findDM(userA, userB) : chats[id].createdAt <= chats[other].createdAt
    ELSE DmIds[Cardinality(Dms) + 1]

\* createDM: the chats map after the call; memberIds is userIds as a set
createDM(userA, userB) ==
    IF findDM(userA, userB) # {} THEN chats
    ELSE [x \in DOMAIN chats \cup {createDMId(userA, userB)} |->
            IF x = createDMId(userA, userB)
            THEN [type |-> "dm", userIds |-> <<userA, userB>>,
                  memberIds |-> {userA, userB}, createdAt |-> Cardinality(Dms) + 1]
            ELSE chats[x]]

listUserChats(u) ==
    {id \in DOMAIN chats :
        \/ chats[id].type = "channel"
        \/ chats[id].type \in {"dm", "gc"} /\ u \in chats[id].memberIds}

\* -------------------------------------------------------------- socket.io
DeliverFront(q, ev) == <<ev>> \o q

DeliverTwice(q, ev) == q \o <<ev, ev>>

DeliverSwap(q, ev) ==
    IF q = <<>> THEN <<ev>> ELSE SubSeq(q, 1, Len(q) - 1) \o <<ev, q[Len(q)]>>

\* one socket's transport: events arrive in the order they were emitted
Deliver(q, ev) == Append(q, ev)

EmitBroadcast(room, ev) ==
    [c \in Conns |-> IF status[c] = "open" THEN Deliver(out[c], ev) ELSE out[c]]

EmitUntilClosed(room, ev) ==
    [c \in Conns |->
        IF room \in joined[c] /\ \A d \in Conns : status[d] # "closed"
        THEN Deliver(out[c], ev) ELSE out[c]]

\* io.to(room).emit(ev): every socket that is in the room now
Emit(room, ev) ==
    [c \in Conns |-> IF room \in joined[c] THEN Deliver(out[c], ev) ELSE out[c]]

\* ------------------------------------------------------------------- init
InitServer(s) ==
    /\ server = s
    /\ status = [c \in Conns |-> "new"]
    /\ userId = [c \in Conns |-> None]
    /\ joined = [c \in Conns |-> {}]
    /\ out = [c \in Conns |-> <<>>]
    /\ users = {}
    /\ authTokens = [t \in {} |-> None]
    /\ chats = [id \in {General} |-> generalChannel]
    /\ messages = [id \in {General} |-> <<>>]
    /\ idCount = 0
    /\ rooms = [r \in {} |-> {}]
    /\ currentUser = [c \in Conns |-> None]
    /\ activeChatId = [c \in Conns |-> None]
    /\ list = [c \in Conns |-> <<>>]
    /\ pending = [c \in Conns |-> <<>>]

\* ------------------------------------------------- transport (socket.io)
\* io.on("connection")
Connect(s, c) ==
    /\ server = s
    /\ status[c] = "new"
    /\ status' = [status EXCEPT ![c] = "open"]
    /\ UNCHANGED <<server, userId, joined, out, storeVars, idCount, rooms, clientVars>>

\* a disconnect that also empties the history of each room it leaves
\* without a member
DisconnectDropRooms(s, c) ==
    /\ server = s
    /\ status[c] = "open"
    /\ status' = [status EXCEPT ![c] = "closed"]
    /\ joined' = [joined EXCEPT ![c] = {}]
    /\ userId' = [userId EXCEPT ![c] = None]
    /\ messages' = [r \in DOMAIN messages |->
                      IF /\ r \in joined[c]
                         /\ \A d \in Conns \ {c} : ~(status[d] = "open" /\ r \in joined[d])
                      THEN <<>>
                      ELSE messages[r]]
    /\ UNCHANGED <<server, out, users, authTokens, chats, idCount, rooms, clientVars>>

\* socket.on("disconnect"): the handler only logs (the presence server has no
\* handler); socket.io takes the socket out of its rooms and drops its data
Disconnect(s, c) ==
    /\ server = s
    /\ status[c] = "open"
    /\ status' = [status EXCEPT ![c] = "closed"]
    /\ joined' = [joined EXCEPT ![c] = {}]
    /\ userId' = [userId EXCEPT ![c] = None]
    /\ UNCHANGED <<server, out, storeVars, idCount, rooms, clientVars>>

\* ------------------------------------------------------------ api1: HTTP
\* app.post("/auth/register")
PostRegister(u) ==
    /\ server = "api1"
    /\ IF u \in users
       THEN UNCHANGED <<users, authTokens>>
       ELSE /\ users' = users \cup {u}
            /\ authTokens' = [t \in DOMAIN authTokens \cup {createTokenForUser(u)} |->
                                IF t = createTokenForUser(u) THEN u ELSE authTokens[t]]
    /\ UNCHANGED <<server, sockVars, chats, messages, idCount, rooms, clientVars>>

\* app.post("/auth/login")
PostLogin(username, password) ==
    /\ server = "api1"
    /\ Logins < MaxLogins
    /\ IF username = "" \/ password = ""
       THEN UNCHANGED authTokens
       ELSE IF getUserByUsername(username) = None \/ passwordOf[username] # password
       THEN UNCHANGED authTokens
       ELSE authTokens' = [t \in DOMAIN authTokens \cup {LoginTokens[Logins + 1]} |->
                             IF t = LoginTokens[Logins + 1] THEN username
                             ELSE authTokens[t]]
    /\ UNCHANGED <<server, sockVars, users, chats, messages, idCount, rooms, clientVars>>

authFromRequest(token) ==
    IF getUserIdFromToken(token) = None THEN None
    ELSE getUserById(getUserIdFromToken(token))

\* app.post("/chats/:chatId/send"): TRUE when no early return is taken
PostChatSendAccepts(token, chatId, content) ==
    /\ authFromRequest(token) # None
    /\ content # ""
    /\ getChat(chatId) # None

PostChatSend(token, chatId, content) ==
    /\ server = "api1"
    /\ idCount < MaxMsgs
    /\ IF ~PostChatSendAccepts(token, chatId, content)
       THEN UNCHANGED <<out, messages, idCount>>
       ELSE LET msg == NewMessage(chatId, authFromRequest(token), content) IN
            /\ messages' = addMessage(chatId, msg)
            /\ idCount' = idCount + 1
            /\ out' = Emit(chatId, msg)
    /\ UNCHANGED <<server, status, userId, joined, users, authTokens, chats, rooms,
                   clientVars>>

\* app.post("/dms/open")
PostDmsOpen(token, username) ==
    /\ server = "api1"
    /\ Cardinality(Dms) < MaxDms
    /\ IF authFromRequest(token) = None \/ username = ""
          \/ getUserByUsername(username) = None
       THEN UNCHANGED <<chats, messages>>
       ELSE /\ chats' = createDM(authFromRequest(token), getUserByUsername(username))
            /\ messages' = [x \in DOMAIN messages \cup DOMAIN chats' |->
                              IF x \in DOMAIN messages THEN messages[x] ELSE <<>>]
    /\ UNCHANGED <<server, sockVars, users, authTokens, idCount, rooms, clientVars>>

\* app.post("/gcs/create")
PostGcsCreate(token, members) ==
    /\ server = "api1"
    /\ ChatIds \ DOMAIN chats # {}
    /\ IF authFromRequest(token) = None
       THEN UNCHANGED <<chats, messages>>
       ELSE LET id == CHOOSE x \in ChatIds \ DOMAIN chats : TRUE IN
            /\ chats' = createGC(id, authFromRequest(token), members \cap users)
            /\ messages' = [x \in DOMAIN messages \cup {id} |->
                              IF x = id THEN <<>> ELSE messages[x]]
    /\ UNCHANGED <<server, sockVars, users, authTokens, idCount, rooms, clientVars>>

\* ---------------------------------------------------------- api1: socket
\* socket.on("auth"): the identity the handler binds (None: early return)
AuthBinds(token) == getUserIdFromToken(token)

\* socket.on("auth"): what the handler emits back to the socket when the token
\* does not resolve (it returns without emitting)
AuthRejectReply(c, token) == <<>>

\* socket.on("send_message"): what the handler emits back to the sender when it
\* takes an early return (it returns without emitting)
SendMessageRejectReply(c, chatId) == <<>>

\* socket.join(userId), the personal room, only carries friend_status_update
\* events, which are outside this model; user ids are never chat ids
OnAuth(c, token) ==
    /\ server = "api1"
    /\ status[c] = "open"
    /\ IF AuthBinds(token) = None
       THEN /\ out' = [out EXCEPT ![c] = @ \o AuthRejectReply(c, token)]
            /\ UNCHANGED userId
       ELSE /\ userId' = [userId EXCEPT ![c] = AuthBinds(token)]
            /\ UNCHANGED out
    /\ UNCHANGED <<server, status, joined, storeVars, idCount, rooms, clientVars>>

\* socket.on("join_chat")
OnJoinChat(c, chatId) ==
    /\ server = "api1"
    /\ status[c] = "open"
    /\ joined' = [joined EXCEPT ![c] = @ \cup {chatId}]
    /\ UNCHANGED <<server, status, userId, out, storeVars, idCount, rooms, clientVars>>

\* socket.on("leave_chat")
OnLeaveChat(c, chatId) ==
    /\ server = "api1"
    /\ status[c] = "open"
    /\ joined' = [joined EXCEPT ![c] = @ \ {chatId}]
    /\ UNCHANGED <<server, status, userId, out, storeVars, idCount, rooms, clientVars>>

\* socket.on("send_message"): TRUE when no early return is taken
SendMessageAccepts(c, chatId) ==
    /\ userId[c] # None
    /\ getUserById(userId[c]) # None
    /\ getChat(chatId) # None

OnSendMessage(c, chatId, content) ==
    /\ server = "api1"
    /\ status[c] = "open"
    /\ idCount < MaxMsgs
    /\ IF ~SendMessageAccepts(c, chatId)
       THEN /\ out' = [out EXCEPT ![c] = @ \o SendMessageRejectReply(c, chatId)]
            /\ UNCHANGED <<messages, idCount>>
       ELSE LET msg == NewMessage(chatId, userId[c], content) IN
            /\ messages' = addMessage(chatId, msg)
            /\ idCount' = idCount + 1
            /\ out' = Emit(chatId, msg)
    /\ UNCHANGED <<server, status, userId, joined, users, authTokens, chats, rooms,
                   clientVars>>

\* socket.emit("auth", { token }): a client presents the token of its own
\* account, which the server may not have issued (yet), or an empty one
SocketTokens(c) == {"", createTokenForUser(owner[c])}

\* the tokens a socket may present: its own (shared = FALSE), or any token a
\* user of a shared device may hold
SocketTokensOf(c, shared) == IF shared THEN TokenInputs ELSE SocketTokens(c)

\* the HTTP routes
Api1Http(contents) ==
    \/ \E u \in Users : PostRegister(u)
    \/ \E t \in TokenInputs, id \in ChatIds, x \in contents : PostChatSend(t, id, x)

Api1Groups == \E t \in TokenInputs : PostGcsCreate(t, {})

\* the socket events of the connections conns
Api1Sockets(conns, contents, shared) ==
    \/ \E c \in conns : Connect("api1", c)
    \/ \E c \in conns : Disconnect("api1", c)
    \/ \E c \in conns : \E t \in SocketTokensOf(c, shared) : OnAuth(c, t)
    \/ \E c \in conns, id \in ChatIds : OnJoinChat(c, id)
    \/ \E c \in conns, id \in ChatIds : OnLeaveChat(c, id)
    \/ \E c \in conns, id \in ChatIds, x \in contents : OnSendMessage(c, id, x)

Api1EventsOn(conns, contents, shared) ==
    \/ Api1Http(contents)
    \/ Api1Groups
    \/ Api1Sockets(conns, contents, shared)

Api1Events(contents) == Api1EventsOn(ApiConns, contents, FALSE)

NextApi1 == Api1Events(Texts)

InitApi1 == InitServer("api1")

SpecApi1 == InitApi1 /\ [][NextApi1]_vars

\* the same server with empty contents among the inputs and with sockets that
\* may present any token
Contents == {""} \cup Texts

NextApi1Wide == Api1EventsOn(ApiConns, Contents, TRUE)

SpecApi1Wide == InitApi1 /\ [][NextApi1Wide]_vars

\* one user on two devices, the other user on the HTTP routes only, and no
\* group chat
Twins == {"c1", "c2"}

NextApi1Twin == Api1Http(Texts) \/ Api1Sockets(Twins, Texts, FALSE)

\* the routes that reach every store operation on chats and histories
NextApi1Dms ==
    \/ \E u \in Users : PostRegister(u)
    \/ \E t \in TokenInputs, n \in Users \cup {""} : PostDmsOpen(t, n)
    \/ \E t \in TokenInputs : PostGcsCreate(t, {})
    \/ \E t \in TokenInputs, id \in {General} \cup DmIdSet, x \in Texts :
          PostChatSend(t, id, x)

SpecApi1Dms == InitApi1 /\ [][NextApi1Dms]_vars

\* register and login next to the other routes, and one socket that may
\* present any token, issued or not
NextApi1Auth ==
    \/ Api1EventsOn({"c1"}, Texts, TRUE)
    \/ \E u \in Users, pw \in Passwords : PostLogin(u, pw)
    \/ \E t \in AnyToken : OnAuth("c1", t)

SpecApi1Auth == InitApi1 /\ [][NextApi1Auth]_vars

\* one socket, which may present any token, next to the HTTP routes
NextApi1Solo == Api1EventsOn({"c1"}, Texts, TRUE)

SpecApi1Solo == InitApi1 /\ [][NextApi1Solo]_vars

\* ------------------------------------------------------ presence server
PresenceEventEmpty(roomId, set) ==
    [type |-> "presence_update", id |-> 0, room |-> roomId,
     sender |-> None, content |-> "", users |-> {}]

\* the presence_update payload: the room and Array.from(rooms.get(roomId))
PresenceEvent(roomId, set) ==
    [type |-> "presence_update", id |-> 0, room |-> roomId,
     sender |-> None, content |-> "", users |-> set]

RoomsAddToggle(roomId, uid) ==
    [r \in DOMAIN rooms \cup {roomId} |->
        IF r = roomId
        THEN (IF roomId \in DOMAIN rooms
              THEN (IF uid \in rooms[roomId] THEN rooms[roomId] \ {uid}
                    ELSE rooms[roomId] \cup {uid})
              ELSE {uid})
        ELSE rooms[r]]

\* rooms.get(roomId).add(userId), after creating the set when it is missing
RoomsAdd(roomId, uid) ==
    [r \in DOMAIN rooms \cup {roomId} |->
        IF r = roomId
        THEN (IF roomId \in DOMAIN rooms THEN rooms[roomId] ELSE {}) \cup {uid}
        ELSE rooms[r]]

\* set.delete(userId)
RoomsDelete(roomId, uid) == [rooms EXCEPT ![roomId] = @ \ {uid}]

RECURSIVE Pushed(_)
\* the number of events pushed to the sockets of cs so far
Pushed(cs) ==
    IF cs = {} THEN 0
    ELSE LET c == CHOOSE x \in cs : TRUE IN Len(out[c]) + Pushed(cs \ {c})

\* the presence server stops taking events once MaxOut pushes are out
RoomForEvent == Pushed(Conns) < MaxOut

\* socket.on("join_room")
OnJoinRoom(c, roomId, uid) ==
    /\ server = "rooms"
    /\ status[c] = "open"
    /\ RoomForEvent
    /\ joined' = [joined EXCEPT ![c] = @ \cup {roomId}]
    /\ rooms' = RoomsAdd(roomId, uid)
    /\ out' = [d \in Conns |->
                 IF roomId \in joined'[d]
                 THEN Deliver(out[d], PresenceEvent(roomId, rooms'[roomId]))
                 ELSE out[d]]
    /\ UNCHANGED <<server, status, userId, storeVars, idCount, clientVars>>

\* socket.on("leave_room")
OnLeaveRoom(c, roomId, uid) ==
    /\ server = "rooms"
    /\ status[c] = "open"
    /\ RoomForEvent
    /\ joined' = [joined EXCEPT ![c] = @ \ {roomId}]
    /\ IF roomId \in DOMAIN rooms
       THEN /\ rooms' = RoomsDelete(roomId, uid)
            /\ out' = [d \in Conns |->
                         IF roomId \in joined'[d]
                         THEN Deliver(out[d], PresenceEvent(roomId, rooms'[roomId]))
                         ELSE out[d]]
       ELSE UNCHANGED <<rooms, out>>
    /\ UNCHANGED <<server, status, userId, storeVars, idCount, clientVars>>

\* socket.on("send_message") of the presence server: the payload is re-emitted
\* with a server-side id
OnRoomSend(c, roomId, sender, content) ==
    /\ server = "rooms"
    /\ status[c] = "open"
    /\ idCount < MaxMsgs
    /\ RoomForEvent
    /\ idCount' = idCount + 1
    /\ out' = Emit(roomId, NewMessage(roomId, sender, content))
    /\ UNCHANGED <<server, status, userId, joined, storeVars, rooms, clientVars>>

\* the user ids a client may put in its payloads
PayloadUserIds(c, honest) == IF honest THEN {owner[c]} ELSE Users

RoomsEvents(conns, honest) ==
    \/ \E c \in conns : Connect("rooms", c)
    \/ \E c \in conns : Disconnect("rooms", c)
    \/ \E c \in conns, r \in ChatIds : \E u \in PayloadUserIds(c, honest) : OnJoinRoom(c, r, u)
    \/ \E c \in conns, r \in ChatIds : \E u \in PayloadUserIds(c, honest) : OnLeaveRoom(c, r, u)
    \/ \E c \in conns, r \in ChatIds, x \in Texts :
          \E u \in PayloadUserIds(c, honest) : OnRoomSend(c, r, u, x)

NextRooms == RoomsEvents({"c1", "c3"}, FALSE)

\* two clients, each passing its own user id
NextRoomsPair == RoomsEvents({"c1", "c3"}, TRUE)

\* every client passes its own user id
NextRoomsHonest == RoomsEvents(Conns, TRUE)

InitRooms == InitServer("rooms")

SpecRooms == InitRooms /\ [][NextRooms]_vars

SpecRoomsHonest == InitRooms /\ [][NextRoomsHonest]_vars

\* ------------------------------------ WebSocket relay + CloudNetLayout
Drafts == {" ", "hi"}

\* raw.trim()
Trim(raw) == IF raw = " " THEN "" ELSE raw

\* socket.onmessage: the messages state after a frame (frames carry id and chatId)
OnMessage(prev, msg) ==
    IF \E i \in 1..Len(prev) : prev[i].id = msg.id THEN prev ELSE Append(prev, msg)

\* handleLogin, for an account whose password matches
HandleLogin(c) ==
    /\ server = "relay"
    /\ currentUser[c] = None
    /\ currentUser' = [currentUser EXCEPT ![c] = owner[c]]
    /\ activeChatId' = [activeChatId EXCEPT ![c] = General]
    /\ UNCHANGED <<server, sockVars, storeVars, idCount, rooms, list, pending>>

\* handleOpenChat
HandleOpenChat(c, chatId) ==
    /\ server = "relay"
    /\ currentUser[c] # None
    /\ activeChatId' = [activeChatId EXCEPT ![c] = chatId]
    /\ UNCHANGED <<server, sockVars, storeVars, idCount, rooms, currentUser, list,
                   pending>>

\* sendMessage: TRUE when no early return is taken
ClientSendAccepts(c, chatId, raw) ==
    /\ currentUser[c] # None
    /\ Trim(raw) # ""
    /\ activeChatId[c] # None
    /\ activeChatId[c] = chatId

\* wss.on("connection") / ws.on("message"): the frame goes to every client
\* whose readyState is OPEN, and each of them runs socket.onmessage
RelayBroadcast(msg) ==
    /\ out' = [d \in Conns |->
                 IF status[d] = "open" THEN Deliver(out[d], msg) ELSE out[d]]
    /\ list' = [d \in Conns |->
                  IF status[d] = "open" THEN OnMessage(list[d], msg) ELSE list[d]]

\* sendMessage of CloudNetLayout
ClientSendMessage(c, chatId, raw) ==
    /\ server = "relay"
    /\ idCount < MaxMsgs
    /\ IF ~ClientSendAccepts(c, chatId, raw)
       THEN UNCHANGED <<out, list, idCount>>
       ELSE LET msg == NewMessage(chatId, currentUser[c], Trim(raw)) IN
            /\ idCount' = idCount + 1
            /\ IF status[c] = "open"
               THEN RelayBroadcast(msg)
               ELSE /\ list' = [list EXCEPT ![c] = Append(@, msg)]
                    /\ UNCHANGED out
    /\ UNCHANGED <<server, status, userId, joined, storeVars, rooms, currentUser,
                   activeChatId, pending>>

RelayEvents ==
    \/ \E c \in ApiConns : Connect("relay", c)
    \/ \E c \in ApiConns : Disconnect("relay", c)
    \/ \E c \in ApiConns : HandleLogin(c)
    \/ \E c \in ApiConns, id \in ChatIds : HandleOpenChat(c, id)
    \/ \E c \in ApiConns, id \in ChatIds, raw \in Drafts : ClientSendMessage(c, id, raw)

NextRelay == RelayEvents

InitRelay == InitServer("relay")

SpecRelay == InitRelay /\ [][NextRelay]_vars

\* sendMessage of CloudNetLayout, up to ws.current.send: the frame is on its
\* way to the relay
ClientSendFrame(c, chatId, raw) ==
    /\ server = "relay"
    /\ idCount < MaxMsgs
    /\ IF ~ClientSendAccepts(c, chatId, raw)
       THEN UNCHANGED <<list, idCount, pending>>
       ELSE LET msg == NewMessage(chatId, currentUser[c], Trim(raw)) IN
            /\ idCount' = idCount + 1
            /\ IF status[c] = "open"
               THEN /\ pending' = [pending EXCEPT ![c] = Append(@, msg)]
                    /\ UNCHANGED list
               ELSE /\ list' = [list EXCEPT ![c] = Append(@, msg)]
                    /\ UNCHANGED pending
    /\ UNCHANGED <<server, sockVars, storeVars, rooms, currentUser, activeChatId>>

\* ws.on("message") of the relay for the oldest frame c sent: it may arrive
\* after c's socket has closed
RelayOnFrame(c) ==
    /\ server = "relay"
    /\ pending[c] # <<>>
    /\ RelayBroadcast(Head(pending[c]))
    /\ pending' = [pending EXCEPT ![c] = Tail(@)]
    /\ UNCHANGED <<server, status, userId, joined, storeVars, idCount, rooms,
                   currentUser, activeChatId>>

\* a frame sent on a connection that closed before it reached the relay
FrameLost(c) ==
    /\ server = "relay"
    /\ status[c] = "closed"
    /\ pending[c] # <<>>
    /\ pending' = [pending EXCEPT ![c] = Tail(@)]
    /\ UNCHANGED <<server, sockVars, storeVars, idCount, rooms, currentUser,
                   activeChatId, list>>

\* the relay and its clients with the frames in flight
NextRelayWire ==
    \/ \E c \in ApiConns : Connect("relay", c)
    \/ \E c \in ApiConns : Disconnect("relay", c)
    \/ \E c \in ApiConns : HandleLogin(c)
    \/ \E c \in ApiConns, id \in ChatIds : HandleOpenChat(c, id)
    \/ \E c \in ApiConns, id \in ChatIds, raw \in Drafts : ClientSendFrame(c, id, raw)
    \/ \E c \in ApiConns : RelayOnFrame(c)
    \/ \E c \in ApiConns : FrameLost(c)

SpecRelayWire == InitRelay /\ [][NextRelayWire]_vars

\* ------------------------------------- CloudNetLayout: accounts, moderation
\* the usernames typed into the forms
Usernames == {"cloudz", "CloudZ", "bob"}

toLowerCase(n) == IF n = "CloudZ" THEN "cloudz" ELSE n

\* createId("u"): the ids it returns, in the order of the calls
AccountIds == <<"a1", "a2", "a3">>

AccountIdSet == {AccountIds[i] : i \in 1..Len(AccountIds)}

ServerGeneral == "c_server_general"

randomNicknames == {"ghost", "byte"}

\* what no action of the account screens touches
layoutRest == <<server, sockVars, authTokens, messages, rooms, list, pending>>

\* the browser's user is the owner: currentUser?.role === "owner".  The
\* currentUser snapshot and the users entry agree on role and username: the
\* handlers below change them for the current user in both places or in none.
isOwner(c) ==
    /\ currentUser[c] # None
    /\ users[currentUser[c]].role = "owner"

safeOwnerGuard(targetId) ==
    /\ targetId \in DOMAIN users
    /\ toLowerCase(users[targetId].username) # "cloudz"

ensureUserInServer(cs, id) ==
    [k \in DOMAIN cs |->
        IF k = ServerGeneral THEN [cs[k] EXCEPT !.memberIds = @ \cup {id}] ELSE cs[k]]

removeMember(cs, id) ==
    [k \in DOMAIN cs |-> [cs[k] EXCEPT !.memberIds = @ \ {id}]]

newUser(uname) ==
    [username |-> uname,
     displayName |-> IF toLowerCase(uname) = "cloudz" THEN "cloudz" ELSE uname,
     role |-> IF toLowerCase(uname) = "cloudz" THEN "owner" ELSE "user",
     banned |-> FALSE, kicked |-> FALSE, muted |-> FALSE, tempMod |-> FALSE,
     rainbowName |-> FALSE]

\* handleCreateAccount, from the account screens, with a password given
handleCreateAccount(c, uname) ==
    /\ server = "layout"
    /\ currentUser[c] = None
    /\ idCount < MaxAccounts
    /\ IF \E a \in DOMAIN users : toLowerCase(users[a].username) = toLowerCase(uname)
       THEN UNCHANGED <<users, chats, idCount>>
       ELSE /\ users' = [a \in DOMAIN users \cup {AccountIds[idCount + 1]} |->
                           IF a = AccountIds[idCount + 1] THEN newUser(uname)
                           ELSE users[a]]
            /\ chats' = ensureUserInServer(chats, AccountIds[idCount + 1])
            /\ idCount' = idCount + 1
    /\ UNCHANGED <<currentUser, activeChatId, layoutRest>>

\* handleLogin with account a selected and its password typed
handleLoginAs(c, a) ==
    /\ server = "layout"
    /\ currentUser[c] = None
    /\ a \in DOMAIN users
    /\ IF users[a].banned
       THEN UNCHANGED <<currentUser, activeChatId, chats>>
       ELSE /\ currentUser' = [currentUser EXCEPT ![c] = a]
            /\ activeChatId' = [activeChatId EXCEPT ![c] = ServerGeneral]
            /\ chats' = ensureUserInServer(chats, a)
    /\ UNCHANGED <<users, idCount, layoutRest>>

handleLogout(c) ==
    /\ server = "layout"
    /\ currentUser[c] # None
    /\ currentUser' = [currentUser EXCEPT ![c] = None]
    /\ UNCHANGED <<users, chats, idCount, activeChatId, layoutRest>>

handleDeleteAccount(c, a) ==
    /\ server = "layout"
    /\ a \in DOMAIN users
    /\ users' = [b \in DOMAIN users \ {a} |-> users[b]]
    /\ chats' = removeMember(chats, a)
    /\ currentUser' = [currentUser EXCEPT ![c] = IF @ = a THEN None ELSE @]
    /\ UNCHANGED <<idCount, activeChatId, layoutRest>>

\* handleUpdateProfile({ username })
handleUpdateProfile(c, uname) ==
    /\ server = "layout"
    /\ currentUser[c] # None
    /\ users' = [users EXCEPT ![currentUser[c]].username =
                    IF toLowerCase(@) = "cloudz" THEN "cloudz" ELSE uname]
    /\ UNCHANGED <<chats, idCount, currentUser, activeChatId, layoutRest>>

\* the shape of every moderator handler: the guard, then prev.map on the target
Moderate(c, targetId, changed) ==
    /\ server = "layout"
    /\ targetId \in AccountIdSet
    /\ IF ~isOwner(c) \/ ~safeOwnerGuard(targetId)
       THEN UNCHANGED users
       ELSE users' = [users EXCEPT ![targetId] = changed]

handleBanUser(c, targetId) ==
    /\ Moderate(c, targetId, [users[targetId] EXCEPT !.banned = TRUE])
    /\ UNCHANGED <<chats, idCount, currentUser, activeChatId, layoutRest>>

handleKickUser(c, targetId) ==
    /\ Moderate(c, targetId, [users[targetId] EXCEPT !.kicked = TRUE])
    /\ chats' = IF ~isOwner(c) \/ ~safeOwnerGuard(targetId) THEN chats
                 ELSE removeMember(chats, targetId)
    /\ UNCHANGED <<idCount, currentUser, activeChatId, layoutRest>>

handleResetUsername(c, targetId) ==
    /\ Moderate(c, targetId, [users[targetId] EXCEPT !.username = "user_" \o targetId,
                                                      !.displayName = "user_" \o targetId])
    /\ UNCHANGED <<chats, idCount, currentUser, activeChatId, layoutRest>>

handleForceLogoutUser(c, targetId) ==
    /\ Moderate(c, targetId, [users[targetId] EXCEPT !.kicked = TRUE])
    /\ currentUser' = [currentUser EXCEPT ![c] =
                          IF isOwner(c) /\ safeOwnerGuard(targetId) /\ @ = targetId
                          THEN None ELSE @]
    /\ UNCHANGED <<chats, idCount, activeChatId, layoutRest>>

handleToggleMuteUser(c, targetId) ==
    /\ Moderate(c, targetId, [users[targetId] EXCEPT !.muted = ~@])
    /\ UNCHANGED <<chats, idCount, currentUser, activeChatId, layoutRest>>

handlePromoteToAdmin(c, targetId) ==
    /\ Moderate(c, targetId, [users[targetId] EXCEPT !.role = "admin", !.tempMod = FALSE])
    /\ UNCHANGED <<chats, idCount, currentUser, activeChatId, layoutRest>>

handleDemoteAdmin(c, targetId) ==
    /\ Moderate(c, targetId, [users[targetId] EXCEPT !.role = "user", !.tempMod = FALSE])
    /\ UNCHANGED <<chats, idCount, currentUser, activeChatId, layoutRest>>

handleGrantTempMod(c, targetId) ==
    /\ Moderate(c, targetId, [users[targetId] EXCEPT !.role = "admin", !.tempMod = TRUE])
    /\ UNCHANGED <<chats, idCount, currentUser, activeChatId, layoutRest>>

handleToggleRainbowName(c, targetId) ==
    /\ Moderate(c, targetId, [users[targetId] EXCEPT !.rainbowName = ~@])
    /\ UNCHANGED <<chats, idCount, currentUser, activeChatId, layoutRest>>

handleRandomNickname(c, targetId, nick) ==
    /\ Moderate(c, targetId, [users[targetId] EXCEPT !.displayName = nick])
    /\ UNCHANGED <<chats, idCount, currentUser, activeChatId, layoutRest>>

LayoutAccounts(c) ==
    \/ \E n \in Usernames : handleCreateAccount(c, n)
    \/ \E a \in AccountIdSet : handleLoginAs(c, a)
    \/ handleLogout(c)
    \/ \E a \in AccountIdSet : handleDeleteAccount(c, a)
    \/ \E n \in Usernames : handleUpdateProfile(c, n)

LayoutModeration(c) ==
    \E a \in AccountIdSet :
        \/ handleBanUser(c, a)
        \/ handleKickUser(c, a)
        \/ handleResetUsername(c, a)
        \/ handleForceLogoutUser(c, a)
        \/ handleToggleMuteUser(c, a)
        \/ handlePromoteToAdmin(c, a)
        \/ handleDemoteAdmin(c, a)
        \/ handleGrantTempMod(c, a)
        \/ handleToggleRainbowName(c, a)
        \/ \E nick \in randomNicknames : handleRandomNickname(c, a, nick)

NextLayout == LayoutAccounts("c1") \/ LayoutModeration("c1")

\* initialUsers, initialChats: no account, the server chat without members
InitLayout ==
    /\ server = "layout"
    /\ status = [c \in Conns |-> "new"]
    /\ userId = [c \in Conns |-> None]
    /\ joined = [c \in Conns |-> {}]
    /\ out = [c \in Conns |-> <<>>]
    /\ users = [a \in {} |-> None]
    /\ authTokens = [t \in {} |-> None]
    /\ chats = [id \in {ServerGeneral} |-> [type |-> "server", memberIds |-> {}]]
    /\ messages = [id \in {} |-> <<>>]
    /\ idCount = 0
    /\ rooms = [r \in {} |-> {}]
    /\ currentUser = [c \in Conns |-> None]
    /\ activeChatId = [c \in Conns |-> None]
    /\ list = [c \in Conns |-> <<>>]
    /\ pending = [c \in Conns |-> <<>>]

SpecLayout == InitLayout /\ [][NextLayout]_vars

\* ------------------------------------------- the rewritten api server
\* store.getUserFromToken
getUserFromToken(token) ==
    IF token = "" THEN None
    ELSE IF token \in DOMAIN authTokens /\ authTokens[token] \in users
         THEN authTokens[token] ELSE None

\* auth(req): the user of the bearer token
auth(token) == getUserFromToken(token)

\* socket.on("message", onMessage) of CloudNetApp: the messages state after a
\* pushed message
AppOnMessage(prev, msg) ==
    IF Len(prev) > 0 /\ prev[1].room = msg.room THEN Append(prev, msg) ELSE prev

\* io.to(chatId).emit("message", msg) and the onMessage handler of every
\* CloudNetApp client it reaches
Api2Emit(chatId, msg) ==
    /\ out' = Emit(chatId, msg)
    /\ list' = [c \in Conns |->
                  IF chatId \in joined[c] /\ currentUser[c] # None
                  THEN AppOnMessage(list[c], msg) ELSE list[c]]

\* app.post("/auth/register") of the rewrite: createUser throws on a taken name
Api2PostRegister(u) ==
    /\ server = "api2"
    /\ IF u \in users
       THEN UNCHANGED <<users, authTokens>>
       ELSE /\ users' = users \cup {u}
            /\ authTokens' = [t \in DOMAIN authTokens \cup {createTokenForUser(u)} |->
                                IF t = createTokenForUser(u) THEN u ELSE authTokens[t]]
    /\ UNCHANGED <<server, sockVars, chats, messages, idCount, rooms, clientVars>>

\* app.post("/chats/:id/send") of the rewrite: only the bearer token is checked
Api2PostSend(token, chatId, content) ==
    /\ server = "api2"
    /\ idCount < MaxMsgs
    /\ IF auth(token) = None
       THEN UNCHANGED <<out, messages, idCount, list>>
       ELSE LET msg == NewMessage(chatId, auth(token), content) IN
            /\ messages' = addMessage(chatId, msg)
            /\ idCount' = idCount + 1
            /\ Api2Emit(chatId, msg)
    /\ UNCHANGED <<server, status, userId, joined, users, authTokens, chats, rooms,
                   currentUser, activeChatId, pending>>

\* app.post("/gcs/create") of the rewrite
Api2PostGcsCreate(token, members) ==
    /\ server = "api2"
    /\ ChatIds \ (DOMAIN chats \cup DOMAIN messages) # {}
    /\ IF auth(token) = None
       THEN UNCHANGED <<chats, messages>>
       ELSE LET id == CHOOSE x \in ChatIds \ (DOMAIN chats \cup DOMAIN messages) : TRUE IN
            /\ chats' = createGC(id, auth(token), members \cap users)
            /\ messages' = [x \in DOMAIN messages \cup {id} |->
                              IF x = id THEN <<>> ELSE messages[x]]
    /\ UNCHANGED <<server, sockVars, users, authTokens, idCount, rooms, clientVars>>

\* socket.on("auth") of the rewrite
Api2OnAuth(c, token) ==
    /\ server = "api2"
    /\ status[c] = "open"
    /\ IF getUserFromToken(token) = None
       THEN UNCHANGED userId
       ELSE userId' = [userId EXCEPT ![c] = getUserFromToken(token)]
    /\ UNCHANGED <<server, status, joined, out, storeVars, idCount, rooms, clientVars>>

\* socket.on("join")
Api2OnJoin(c, chatId) ==
    /\ server = "api2"
    /\ status[c] = "open"
    /\ joined' = [joined EXCEPT ![c] = @ \cup {chatId}]
    /\ UNCHANGED <<server, status, userId, out, storeVars, idCount, rooms, clientVars>>

\* socket.on("leave")
Api2OnLeave(c, chatId) ==
    /\ server = "api2"
    /\ status[c] = "open"
    /\ joined' = [joined EXCEPT ![c] = @ \ {chatId}]
    /\ UNCHANGED <<server, status, userId, out, storeVars, idCount, rooms, clientVars>>

\* socket.on("send") of the rewrite: only socket.data.userId is checked
Api2OnSend(c, chatId, content) ==
    /\ server = "api2"
    /\ status[c] = "open"
    /\ idCount < MaxMsgs
    /\ IF userId[c] = None
       THEN UNCHANGED <<out, messages, idCount, list>>
       ELSE LET msg == NewMessage(chatId, userId[c], content) IN
            /\ messages' = addMessage(chatId, msg)
            /\ idCount' = idCount + 1
            /\ Api2Emit(chatId, msg)
    /\ UNCHANGED <<server, status, userId, joined, users, authTokens, chats, rooms,
                   currentUser, activeChatId, pending>>

Api2Http ==
    \/ \E u \in Users : Api2PostRegister(u)
    \/ \E t \in TokenInputs, id \in ChatIds, x \in Texts : Api2PostSend(t, id, x)
    \/ \E t \in TokenInputs : Api2PostGcsCreate(t, {})

Api2Sockets(conns) ==
    \/ \E c \in conns : Connect("api2", c)
    \/ \E c \in conns : Disconnect("api2", c)
    \/ \E c \in conns : \E t \in SocketTokens(c) : Api2OnAuth(c, t)
    \/ \E c \in conns, id \in ChatIds : Api2OnJoin(c, id)
    \/ \E c \in conns, id \in ChatIds : Api2OnLeave(c, id)
    \/ \E c \in conns, id \in ChatIds, x \in Texts : Api2OnSend(c, id, x)

NextApi2 == Api2Http \/ Api2Sockets(ApiConns)

InitApi2 == InitServer("api2")

SpecApi2 == InitApi2 /\ [][NextApi2]_vars

\* --------------------------------------------------- CloudNetApp client
\* api.getMessages(activeChatId) of one run of the active-chat effect
Fetch(chatId) == [chat |-> chatId, cancelled |-> FALSE, served |-> FALSE, res |-> <<>>]

\* the effect's cleanup sets `cancelled` of the run it belongs to
Cancel(q) == [i \in 1..Len(q) |-> [q[i] EXCEPT !.cancelled = TRUE]]

Remove(q, i) == SubSeq(q, 1, i - 1) \o SubSeq(q, i + 1, Len(q))

\* setUser after a successful login, and the effects it starts: getSocket
\* (connect, then auth with the stored token), setActiveChatId(general), and
\* the first run of the active-chat effect
AppLogin(c) ==
    /\ server = "api2"
    /\ status[c] = "new"
    /\ currentUser[c] = None
    /\ owner[c] \in users
    /\ currentUser' = [currentUser EXCEPT ![c] = owner[c]]
    /\ status' = [status EXCEPT ![c] = "open"]
    /\ userId' = [userId EXCEPT ![c] = getUserFromToken(createTokenForUser(owner[c]))]
    /\ activeChatId' = [activeChatId EXCEPT ![c] = General]
    /\ pending' = [pending EXCEPT ![c] = <<Fetch(General)>>]
    /\ UNCHANGED <<server, joined, out, storeVars, idCount, rooms, list>>

\* setActiveChatId(chatId) while the socket is connected: the cleanup of the
\* previous run (cancelled = true; leaveChat) and a new run of the effect
AppOpenChat(c, chatId) ==
    /\ server = "api2"
    /\ status[c] = "open"
    /\ currentUser[c] # None
    /\ chatId \in listUserChats(currentUser[c])
    /\ chatId # activeChatId[c]
    /\ Len(pending[c]) < MaxFetches
    /\ joined' = [joined EXCEPT ![c] = @ \ {activeChatId[c]}]
    /\ activeChatId' = [activeChatId EXCEPT ![c] = chatId]
    /\ pending' = [pending EXCEPT ![c] = Append(Cancel(@), Fetch(chatId))]
    /\ UNCHANGED <<server, status, userId, out, storeVars, idCount, rooms, currentUser,
                   list>>

\* app.get("/chats/:id/messages"): the server reads the history for a fetch
Api2GetMessages(c, i) ==
    /\ server = "api2"
    /\ i \in 1..Len(pending[c])
    /\ ~pending[c][i].served
    /\ auth(createTokenForUser(currentUser[c])) # None
    /\ pending' = [pending EXCEPT ![c][i] =
                      [@ EXCEPT !.served = TRUE,
                                 !.res = getMessages(pending[c][i].chat)]]
    /\ UNCHANGED <<server, sockVars, storeVars, idCount, rooms, currentUser,
                   activeChatId, list>>

\* the response reaches the client while the socket is connected:
\* if (!cancelled) setMessages(res.messages); joinChat(activeChatId)
AppFetchResolved(c, i) ==
    /\ server = "api2"
    /\ status[c] = "open"
    /\ i \in 1..Len(pending[c])
    /\ pending[c][i].served
    /\ list' = [list EXCEPT ![c] = IF pending[c][i].cancelled THEN @ ELSE pending[c][i].res]
    /\ joined' = [joined EXCEPT ![c] = @ \cup {pending[c][i].chat}]
    /\ pending' = [pending EXCEPT ![c] = Remove(@, i)]
    /\ UNCHANGED <<server, status, userId, out, storeVars, idCount, rooms, currentUser,
                   activeChatId>>

\* socket.io-client reconnects on its own: the server sees a new socket, in
\* no room, and the connect handler sends auth again
AppReconnect(c) ==
    /\ server = "api2"
    /\ status[c] = "closed"
    /\ currentUser[c] # None
    /\ status' = [status EXCEPT ![c] = "open"]
    /\ userId' = [userId EXCEPT ![c] = getUserFromToken(createTokenForUser(owner[c]))]
    /\ UNCHANGED <<server, joined, out, storeVars, idCount, rooms, clientVars>>

AppEvents(conns) ==
    \/ \E c \in conns : AppLogin(c)
    \/ \E c \in conns, id \in ChatIds : AppOpenChat(c, id)
    \/ \E c \in conns, i \in 1..MaxFetches : Api2GetMessages(c, i)
    \/ \E c \in conns, i \in 1..MaxFetches : AppFetchResolved(c, i)

AppNetwork(conns) ==
    \/ \E c \in conns : Disconnect("api2", c)
    \/ \E c \in conns : AppReconnect(c)

\* one CloudNetApp client next to the HTTP routes, on a network that holds
NextAppSteady == Api2Http \/ AppEvents({"c1"})

SpecAppSteady == InitApi2 /\ [][NextAppSteady]_vars

\* the same on a network that drops and restores the socket
NextApp == Api2Http \/ AppEvents({"c1"}) \/ AppNetwork({"c1"})

SpecApp == InitApi2 /\ [][NextApp]_vars

\* ------------------------------------------------ any of the deployments
Init == InitApi1 \/ InitRooms \/ InitRelay

Next == NextApi1 \/ NextRoomsPair \/ NextRelay

Spec == Init /\ [][Next]_vars

NextTwin == NextApi1Twin \/ NextRoomsPair \/ NextRelay

SpecTwin == Init /\ [][NextTwin]_vars

\* ================================================================ claims
IsMsg(e) == e.type = "message"

Last(q) == q[Len(q)]

Hist(r) == getMessages(r)

Persisted(e) ==
    /\ e.room \in DOMAIN messages
    /\ \E k \in 1..Len(messages[e.room]) : messages[e.room][k] = e

LiveIn(r) == {c \in Conns : status[c] = "open" /\ r \in joined[c]}

Identities(cs) == {owner[c] : c \in cs}

\* ------------------------------------------------------------------- C1
C1_OrderInv ==
    \A c \in Conns : \A i, j \in 1..Len(out[c]) :
        (i < j /\ IsMsg(out[c][i]) /\ IsMsg(out[c][j]) /\ out[c][i].room = out[c][j].room)
        => \E a, b \in 1..Len(Hist(out[c][i].room)) :
              /\ a < b
              /\ Hist(out[c][i].room)[a] = out[c][i]
              /\ Hist(out[c][i].room)[b] = out[c][j]

C1_FanOutStep ==
    \A r \in ChatIds :
        Len(Hist(r)') = Len(Hist(r)) + 1
        => /\ SubSeq(Hist(r)', 1, Len(Hist(r))) = Hist(r)
           /\ \A c \in Conns :
                r \in joined[c] /\ r \in joined'[c]
                => out'[c] = Append(out[c], Last(Hist(r)'))

\* C1: per-room ordering.  Every accepted send (socket send_message or HTTP
\* /chats/:chatId/send) is appended to the room's history and pushed, in the
\* same step, to the end of the stream of every socket joined to the room; so
\* any two messages of a room appear in every stream in the order in which
\* they were accepted.
C1_Ordering == []C1_OrderInv /\ [][C1_FanOutStep]_vars

C1_Witness ==
    \E c \in Conns :
        /\ Len(out[c]) = 2
        /\ out[c][1].room = out[c][2].room
        /\ out[c][1].sender # out[c][2].sender
        /\ Len(Hist(out[c][1].room)) = 2

\* ------------------------------------------------------------------- C2
C2_Step(c) ==
    (Len(out'[c]) = Len(out[c]) + 1 /\ IsMsg(Last(out'[c])))
    => Last(out'[c]).room \in joined[c]

\* C2 (as amended): in the socket.io servers a message for room R is pushed
\* only to sockets that are in R when it is fanned out.
C2_SocketIOStep == server \in {"api1", "rooms"} => \A c \in Conns : C2_Step(c)

C2_EveryServerStep == \A c \in Conns : C2_Step(c)

LastPresence(c, r) ==
    LET at == {i \in 1..Len(out[c]) : out[c][i].type = "presence_update" /\ out[c][i].room = r}
    IN  out[c][CHOOSE i \in at : \A k \in at : k <= i]

HasPresence(c, r) ==
    \E i \in 1..Len(out[c]) : out[c][i].type = "presence_update" /\ out[c][i].room = r

\* C3: presence consistency.  The latest presence snapshot pushed to a socket
\* that is joined to room R lists exactly the identities with a live socket
\* joined to R.
C3_PresenceConsistency ==
    \A r \in ChatIds : \A c \in LiveIn(r) :
        HasPresence(c, r) => LastPresence(c, r).users = Identities(LiveIn(r))

\* ------------------------------------------------------------------- C4
\* C4: disconnect cleanup.  Once a socket is closed, no room's presence set
\* lists its identity, and no snapshot last pushed to a remaining member lists
\* it, unless another live socket of that identity is joined to the room.
C4_DisconnectCleanup ==
    \A c \in Conns :
        status[c] = "closed"
        => \A r \in DOMAIN rooms :
              owner[c] \notin Identities(LiveIn(r))
              => /\ owner[c] \notin rooms[r]
                 /\ \A d \in LiveIn(r) :
                       HasPresence(d, r) => owner[c] \notin LastPresence(d, r).users

C6_SendStep ==
    \A c \in Conns, r \in ChatIds, x \in Texts :
        (OnSendMessage(c, r, x) /\ messages' # messages)
        => (userId[c] # None /\ r \in joined[c])

C6_JoinBeforeSend == [][C6_SendStep]_vars

\* ------------------------------------------------------------------- C7
\* C7: forbidden join.  A join_chat for a dm or gc chat by an identity that is
\* not in its member list does not add the socket to the room.
C7_JoinStep ==
    (\A c \in Conns, r \in ChatIds :
          (/\ OnJoinChat(c, r)
           /\ userId[c] # None
           /\ r \in DOMAIN chats
           /\ chats[r].type \in {"dm", "gc"}
           /\ userId[c] \notin chats[r].memberIds)
          => joined'[c] = joined[c])

C7_ForbiddenJoin == [][C7_JoinStep]_vars

\* ------------------------------------------------------------------- C8
\* C8: a socket is in a room only if it has authenticated.
C8_JoinRequiresAuth ==
    \A c \in Conns : joined[c] # {} => userId[c] # None

\* ------------------------------------------------------------------- C9
\* C9: a send_message on a socket with no bound identity is answered with an
\* error event.
C9_UnauthorizedSendReported ==
    \A c \in Conns, r \in ChatIds :
        (server = "api1" /\ status[c] = "open" /\ userId[c] = None)
        => \E i \in 1..Len(SendMessageRejectReply(c, r)) :
              SendMessageRejectReply(c, r)[i].type = "error"

\* ------------------------------------------------------------------ C10
\* C10: an auth whose token resolves to no identity is answered with an error
\* frame.
C10_FailedAuthReported ==
    \A c \in Conns, t \in TokenInputs :
        (server = "api1" /\ status[c] = "open" /\ AuthBinds(t) = None)
        => \E i \in 1..Len(AuthRejectReply(c, t)) :
              AuthRejectReply(c, t)[i].type = "error"

\* ------------------------------------------------------------------ C11
\* C11: empty content is rejected on every send path: no history and no
\* stream ever holds a message whose content is empty.
C11_EmptyContentRejected ==
    /\ \A r \in DOMAIN messages : \A i \in 1..Len(messages[r]) :
          messages[r][i].content # ""
    /\ \A c \in Conns : \A i \in 1..Len(out[c]) :
          IsMsg(out[c][i]) => out[c][i].content # ""

\* ------------------------------------------------------------------ C12
\* C12: AlreadyBound.  The identity bound to a socket never changes from one
\* identity to another: an auth that resolves to a different identity leaves
\* the binding as it was.
C12_BindStep ==
    \A c \in Conns :
        (userId[c] # None /\ userId'[c] # None) => userId'[c] = userId[c]

C12_AlreadyBound == [][C12_BindStep]_vars

\* ------------------------------------------------------------------ C13
C13_OnceInv ==
    \A c \in Conns : \A i, j \in 1..Len(out[c]) :
        (i < j /\ IsMsg(out[c][i]) /\ IsMsg(out[c][j])) => out[c][i].id # out[c][j].id

C13_Rejoin(c, r) ==
    /\ r \in joined[c]
    /\ \/ OnJoinChat(c, r)
       \/ \E u \in Users :
             r \in DOMAIN rooms /\ u \in rooms[r] /\ OnJoinRoom(c, r, u)

\* a step that changes some socket's rooms, a presence set or a room's live
\* membership is not a repeated join
C13_RejoinStep ==
    (joined' # joined \/ rooms' # rooms \/ \E r \in ChatIds : LiveIn(r)' # LiveIn(r))
    => \A c \in Conns, r \in ChatIds : ~C13_Rejoin(c, r)

\* C13: join is idempotent.  A join_chat / join_room for a room the socket is
\* already in (with the user id already in the presence set) leaves every
\* socket's rooms, the presence sets and the room's live membership as they
\* were, and no stream ever holds the same message twice.
C13_JoinIdempotent == []C13_OnceInv /\ [][C13_RejoinStep]_vars

C13_Witness ==
    \E c \in Conns :
        /\ \A d \in Conns \ {c} : status[d] = "new"
        /\ Len(out[c]) = 3
        /\ out[c][1].type = "presence_update"
        /\ out[c][2] = out[c][1]
        /\ IsMsg(out[c][3])
        /\ out[c][3].room = out[c][1].room
        /\ Cardinality(out[c][1].users) = 1

\* ------------------------------------------------------------------ C14
C14_LeaveStep ==
    \A c \in Conns, r \in ChatIds :
        (/\ r \notin joined[c]
         /\ \/ OnLeaveChat(c, r)
            \/ \E u \in Users : OnLeaveRoom(c, r, u))
        => /\ joined' = joined
           /\ rooms' = rooms
           /\ LiveIn(r)' = LiveIn(r)

\* C14: leave on a non-member is a no-op.  A leave_chat / leave_room for room
\* R from a socket that is not in R changes no socket's rooms, no presence set
\* and not R's live membership.
C14_LeaveNonMember == [][C14_LeaveStep]_vars

\* ------------------------------------------------------------------ C15
\* the sockets a send to room r reaches: open, and (where the server has
\* rooms) in r when the send is processed
C15_Remaining(c, r) ==
    /\ status[c] = "open"
    /\ server = "relay" \/ r \in joined[c]

C15_FanOut(r, m) ==
    \A c \in Conns :
        out'[c] = IF C15_Remaining(c, r) THEN Append(out[c], m) ELSE out[c]

C15_SendOf(r) ==
        /\ \A d \in Conns, x \in Texts :
              (OnSendMessage(d, r, x) /\ SendMessageAccepts(d, r))
              => /\ C15_FanOut(r, NewMessage(r, userId[d], x))
                 /\ Hist(r)' = Append(Hist(r), NewMessage(r, userId[d], x))
        /\ \A t \in TokenInputs, x \in Texts :
              (PostChatSend(t, r, x) /\ PostChatSendAccepts(t, r, x))
              => /\ C15_FanOut(r, NewMessage(r, authFromRequest(t), x))
                 /\ Hist(r)' = Append(Hist(r), NewMessage(r, authFromRequest(t), x))
        /\ \A d \in Conns, u \in Users, x \in Texts :
              OnRoomSend(d, r, u, x) => C15_FanOut(r, NewMessage(r, u, x))
        /\ \A d \in Conns, raw \in Drafts :
              (ClientSendMessage(d, r, raw) /\ ClientSendAccepts(d, r, raw)
                 /\ status[d] = "open")
              => C15_FanOut(r, NewMessage(r, currentUser[d], Trim(raw)))

\* every accepted send takes a fresh id
C15_RaceStep == idCount' # idCount => \A r \in ChatIds : C15_SendOf(r)

\* C15: leave or disconnect before a send.  When a send to room R is
\* processed, a socket that has left R or has disconnected gets nothing, and
\* every remaining member gets exactly the message (and the store-backed
\* server persists it): the send completes as if the departed socket had
\* never been there.
C15_DepartedNotDelivered == [][C15_RaceStep]_vars

C15_Witness ==
    \E c, d \in Conns : \E r \in ChatIds :
        /\ server = "api1"
        /\ c # d
        /\ status[c] = "open"
        /\ r \notin joined[c]
        /\ Len(out[c]) = 1 /\ out[c][1].room = r
        /\ Len(out[d]) = 2 /\ out[d][1] = out[c][1] /\ out[d][2].room = r

\* ------------------------------------------------------------------ C16
C16_Step ==
    \A x \in Conns, r \in ChatIds, u \in Users :
        (OnJoinRoom(x, r, u) \/ OnLeaveRoom(x, r, u))
        => /\ \A y \in Conns \ {x} : joined'[y] = joined[y]
           /\ \A y \in Conns \ {x} :
                 (r \in joined[y] /\ r \in DOMAIN rooms /\ owner[y] \in rooms[r])
                 => owner[y] \in rooms'[r]
           /\ rooms'[r] \ (IF r \in DOMAIN rooms THEN rooms[r] ELSE {}) \subseteq {owner[x]}

\* C16: connection isolation.  A join_room / leave_room submitted on socket X
\* changes no other socket's rooms, does not remove from a presence set the
\* identity of another socket that is still joined, and adds to a presence
\* set no identity other than X's own.
C16_ConnectionIsolation == [][C16_Step]_vars

\* ------------------------------------------------------------------ C17
\* the number of copies of message k in the stream of c
C17_Copies(c, k) ==
    Cardinality({i \in 1..Len(out[c]) : IsMsg(out[c][i]) /\ out[c][i].id = k})

C17_AtMostOnce == \A c \in Conns : \A k \in 1..idCount : C17_Copies(c, k) <= 1

\* the connections of one identity
C17_SameIdentity(c, d) ==
    IF server = "api1" THEN userId[c] # None /\ userId[c] = userId[d]
    ELSE owner[c] = owner[d]

C17_Step ==
    idCount' # idCount
    => \A c \in Conns :
          /\ Len(out'[c]) <= Len(out[c]) + 1
          /\ Len(out'[c]) = Len(out[c]) + 1
             => \A d \in Conns :
                   (C17_SameIdentity(c, d) /\ Last(out'[c]).room \in joined[d])
                   => out'[d] = Append(out[d], Last(out'[c]))

\* C17: at most once per connection.  No stream holds two copies of a
\* message, a send pushes at most one event to each socket, and when one
\* socket of an identity gets a message every socket of that identity that is
\* in the room gets its own single copy in the same step.
C17_OncePerConnection == []C17_AtMostOnce /\ [][C17_Step]_vars

C17_Witness ==
    /\ server = "api1"
    /\ userId["c1"] = "u1" /\ userId["c2"] = "u1"
    /\ General \in joined["c1"] /\ General \in joined["c2"]
    /\ Len(out["c1"]) = 2
    /\ out["c2"] = out["c1"]
    /\ out["c1"][1].sender # out["c1"][2].sender

\* ------------------------------------------------------------------ C18
\* the step pushed the presence set of r, as it is after the step, to exactly
\* the sockets that are in r after the step
C18_Snapshot(r) ==
    /\ r \in DOMAIN rooms'
    /\ \A c \in Conns :
          IF r \in joined'[c]
          THEN /\ Len(out'[c]) = Len(out[c]) + 1
               /\ SubSeq(out'[c], 1, Len(out[c])) = out[c]
               /\ Last(out'[c]).type = "presence_update"
               /\ Last(out'[c]).room = r
               /\ Last(out'[c]).users = rooms'[r]
          ELSE out'[c] = out[c]

C18_Step ==
    out' # out
    => IF idCount' # idCount
       THEN \A c \in Conns :
               \/ out'[c] = out[c]
               \/ /\ Len(out'[c]) = Len(out[c]) + 1
                  /\ SubSeq(out'[c], 1, Len(out[c])) = out[c]
                  /\ IsMsg(Last(out'[c]))
       ELSE \E x \in Conns, r \in ChatIds, u \in Users :
               /\ OnJoinRoom(x, r, u) \/ OnLeaveRoom(x, r, u)
               /\ C18_Snapshot(r)

C19_LastSnapshot ==
    \A r \in ChatIds : \A c \in Conns :
        (server = "rooms" /\ r \in joined[c])
        => /\ r \in DOMAIN rooms
           /\ HasPresence(c, r)
           /\ LastPresence(c, r).users = rooms[r]

\* a join or leave that changes the presence set of r pushes the new set to
\* the end of the stream of every socket that is in r before and after it
C19_Step ==
    rooms' # rooms
    => \A r \in DOMAIN rooms' :
          (r \notin DOMAIN rooms \/ rooms'[r] # rooms[r])
          => \A c \in Conns :
                (r \in joined[c] /\ r \in joined'[c])
                => /\ Len(out'[c]) = Len(out[c]) + 1
                   /\ SubSeq(out'[c], 1, Len(out[c])) = out[c]
                   /\ Last(out'[c]).type = "presence_update"
                   /\ Last(out'[c]).room = r
                   /\ Last(out'[c]).users = rooms'[r]

C20_AcceptanceOrder ==
    /\ \A r \in DOMAIN messages : \A i \in 1..Len(messages[r]) :
          /\ messages[r][i].room = r
          /\ messages[r][i].id \in 1..idCount
          /\ \A j \in 1..Len(messages[r]) : i < j => messages[r][i].id < messages[r][j].id
    /\ \A k \in 1..idCount :
          \E r \in DOMAIN messages : \E i \in 1..Len(messages[r]) : messages[r][i].id = k
    /\ \A r, q \in DOMAIN messages :
          r # q => \A i \in 1..Len(messages[r]), j \in 1..Len(messages[q]) :
                     messages[r][i].id # messages[q][j].id

\* a step that changes the histories either appends the newly accepted
\* message to one of them, or adds the empty history of a new chat
C20_Step ==
    messages' # messages
    => /\ DOMAIN messages \subseteq DOMAIN messages'
       /\ IF idCount' # idCount
          THEN \E r \in DOMAIN messages' :
                  /\ Len(Hist(r)') = Len(Hist(r)) + 1
                  /\ SubSeq(Hist(r)', 1, Len(Hist(r))) = Hist(r)
                  /\ Last(Hist(r)').id = idCount'
                  /\ \A q \in DOMAIN messages' \ {r} : Hist(q)' = Hist(q)
          ELSE \A r \in DOMAIN messages' : Hist(r)' = Hist(r)

\* C20: history is append-only and in acceptance order.  getMessages(room) is
\* the accepted sends to the room in the order they were accepted; each
\* earlier result is a prefix of each later one, and a send to another room
\* leaves it as it was.
C20_HistoryAppendOnly == []C20_AcceptanceOrder /\ [][C20_Step]_vars

C20_Witness ==
    /\ server = "api1"
    /\ "p1" \in DOMAIN messages
    /\ Len(Hist("p1")) = 1
    /\ Len(Hist(General)) = 1
    /\ Hist("p1")[1].id < Hist(General)[1].id
    /\ Hist("p1")[1].sender # Hist(General)[1].sender

\* ------------------------------------------------------------------ C21
\* every event pushed and every history entry added by the step is the
\* message <<sender, r, x>> under the id the server has just assigned
C21_Attributed(sender, r, x) ==
    /\ \A d \in Conns :
          Len(out'[d]) > Len(out[d])
          => /\ Last(out'[d]).sender = sender
             /\ Last(out'[d]).room = r
             /\ Last(out'[d]).content = x
             /\ Last(out'[d]).id = idCount'
    /\ \A q \in DOMAIN messages' :
          Len(Hist(q)') > Len(Hist(q))
          => /\ q = r
             /\ Last(Hist(q)').sender = sender
             /\ Last(Hist(q)').room = r
             /\ Last(Hist(q)').content = x
             /\ Last(Hist(q)').id = idCount'

C21_Step ==
    idCount' # idCount
    => /\ \A c \in Conns, r \in ChatIds, x \in Texts :
             OnSendMessage(c, r, x) => C21_Attributed(userId[c], r, x)
       /\ \A t \in TokenInputs, r \in ChatIds, x \in Texts :
             PostChatSend(t, r, x) => C21_Attributed(authFromRequest(t), r, x)
       /\ \A c \in Conns, r \in ChatIds, u \in Users, x \in Texts :
             OnRoomSend(c, r, u, x) => C21_Attributed(owner[c], r, x)

\* C21: sender attribution.  Every message persisted or pushed by a send
\* carries the identity of the connection (or of the bearer token) that
\* submitted it, with the submitted room and content and a server-assigned
\* id.
C21_SenderAttribution == [][C21_Step]_vars

\* ------------------------------------------------------------------ C22
\* C22: unknown room.  A send to a room id that is not in the store persists
\* nothing, creates no history list for the id and emits no message event:
\* histories exist for chats only, and every pushed message is for a chat.
C22_UnknownRoomRejected ==
    /\ DOMAIN messages \subseteq DOMAIN chats
    /\ \A c \in Conns : \A i \in 1..Len(out[c]) :
          IsMsg(out[c][i]) => out[c][i].room \in DOMAIN chats

\* ------------------------------------------------------------------ C23
\* the client is logged in, connected, and has no history fetch in flight
C23_Settled(c) ==
    /\ server = "api2"
    /\ currentUser[c] # None
    /\ status[c] = "open"
    /\ pending[c] = <<>>

\* C23: consistent view.  Once a client has done all it does for the active
\* room (history pulled, join sent, socket connected), its list is the
\* room's persisted history: every message, in order, none twice.
C23_ConsistentView ==
    \A c \in Conns : C23_Settled(c) => list[c] = Hist(activeChatId[c])

\* ------------------------------------------------------------------ C26
\* C26: client room membership follows the active chat.  Once every history
\* fetch has resolved, the client's socket is in the active chat's room and
\* in no other.
C26_MembershipFollowsActive ==
    \A c \in Conns :
        (server = "api2" /\ currentUser[c] # None /\ pending[c] = <<>>)
        => joined[c] = {activeChatId[c]}

\* ------------------------------------------------------------------ C27
C27_Step ==
    (server = "api2" /\ idCount' # idCount)
    => \A c \in Conns :
          (currentUser[c] # None /\ Len(out'[c]) > Len(out[c]))
          => list'[c] = IF Last(out'[c]).room = activeChatId[c]
                        THEN Append(list[c], Last(out'[c]))
                        ELSE list[c]

\* C27: client active-chat filter.  The message handler appends a pushed
\* message to the list exactly when the message's chat is the active chat.
C27_ActiveChatFilter == [][C27_Step]_vars

\* ------------------------------------------------------------------ C24
\* a step that takes the last live connection out of room r leaves every
\* room and every history as it was
C24_Emptied(r) ==
    (LiveIn(r) # {} /\ LiveIn(r)' = {})
    => /\ chats' = chats
       /\ messages' = messages
       /\ rooms' # rooms => (r \in DOMAIN rooms /\ DOMAIN rooms' = DOMAIN rooms)

\* a send the store-backed server accepts for room r goes to the end of r's
\* history and to the connections that are in r, whatever r's past
C24_SendAsAnywhere ==
    (server = "api1" /\ idCount' # idCount)
    => \E r \in DOMAIN chats :
          /\ Len(Hist(r)') = Len(Hist(r)) + 1
          /\ SubSeq(Hist(r)', 1, Len(Hist(r))) = Hist(r)
          /\ \A d \in Conns :
                out'[d] = IF d \in LiveIn(r) THEN Append(out[d], Last(Hist(r)'))
                          ELSE out[d]

C24_Step ==
    /\ DOMAIN chats \subseteq DOMAIN chats'
    /\ DOMAIN rooms \subseteq DOMAIN rooms'
    /\ (joined' # joined) => \A r \in ChatIds : C24_Emptied(r)
    /\ C24_SendAsAnywhere

\* C24: a room outlives its members.  After the last joined connection leaves
\* or disconnects, the room still exists and its history is unchanged, and a
\* later join and send on it work as on any room.
C24_RoomOutlivesMembers == [][C24_Step]_vars

\* c1 was in #general, got the first message and disconnected; c2 is in the
\* room now and got the second message, which c1 did not get
C24_Witness ==
    /\ server = "api1"
    /\ status["c1"] = "closed"
    /\ Len(out["c1"]) = 1
    /\ Len(out["c2"]) = 1
    /\ Hist(General) = <<out["c1"][1], out["c2"][1]>>
    /\ LiveIn(General) = {"c2"}

\* ------------------------------------------------------------------ C25
\* the tokens whose resolution the step changes
C25_Changed == {t \in AnyToken : getUserIdFromToken(t)' # getUserIdFromToken(t)}

\* the step is a successful register or login of u
C25_Issues(u) ==
    \/ u \notin users /\ u \in users'
    \/ /\ u \in users
       /\ users' = users
       /\ PostLogin(u, passwordOf[u])

C25_Step ==
    authTokens' # authTokens
    => /\ \E t \in AnyToken \ {"", "bogus"} :
             /\ C25_Changed = {t}
             /\ t \notin DOMAIN authTokens
             /\ getUserIdFromToken(t) = None
             /\ getUserIdFromToken(t)' \in Users
             /\ C25_Issues(getUserIdFromToken(t)')
       /\ \A u \in Users, pw \in Passwords :
             PostLogin(u, pw) => (u \in users /\ pw = passwordOf[u])

C25_Unissued ==
    /\ getUserIdFromToken("") = None
    /\ getUserIdFromToken("bogus") = None
    /\ \A t \in AnyToken : t \notin DOMAIN authTokens => getUserIdFromToken(t) = None
    /\ \A t \in AnyToken : getUserIdFromToken(t) # None => getUserIdFromToken(t) \in users

\* C25: token resolution.  A token resolves to u exactly when a successful
\* register or login issued it for u; a login issues one only for an
\* existing username with the matching password; an empty or never-issued
\* token resolves to nobody; an issued token resolves to the same user
\* after every later step.
C25_TokenResolution == []C25_Unissued /\ [][C25_Step]_vars

\* u1 holds the token of the registration and the token of a later login,
\* u2 the token of another login, and a message has been accepted since
C25_Witness ==
    /\ server = "api1"
    /\ getUserIdFromToken("t_u1") = "u1"
    /\ getUserIdFromToken("t_l1") = "u1"
    /\ getUserIdFromToken("t_l2") = "u2"
    /\ userId["c1"] = "u1"
    /\ idCount > 0

\* ------------------------------------------------------------------ C28
\* how often the message with id k is in c's list
C28_Shown(c, k) == Cardinality({i \in 1..Len(list[c]) : list[c][i].id = k})

\* C28: exactly-once display of own messages in the WebSocket client.  Once
\* no frame is in flight, every draft that sendMessage accepted is in its
\* sender's list exactly once, and no list holds an id twice.
C28_OwnMessageOnce ==
    (server = "relay" /\ \A c \in Conns : pending[c] = <<>>)
    => /\ \A k \in 1..idCount :
             \E c \in Conns :
                /\ C28_Shown(c, k) = 1
                /\ \E i \in 1..Len(list[c]) :
                      list[c][i].id = k /\ list[c][i].sender = currentUser[c]
       /\ \A c \in Conns, k \in 1..idCount : C28_Shown(c, k) <= 1

\* ------------------------------------------------------------------ C29
\* the owner account is the one named cloudz, and it carries no penalty
C29_OwnerUnharmed ==
    server = "layout"
    => \A a \in DOMAIN users :
          users[a].role = "owner"
          => /\ toLowerCase(users[a].username) = "cloudz"
             /\ ~users[a].banned /\ ~users[a].kicked /\ ~users[a].muted

\* a moderator handler changes the users only for an owner, and only the target
C29_OnlyByOwner ==
    (server = "layout" /\ users' # users /\ LayoutModeration("c1"))
    => /\ currentUser["c1"] # None
       /\ users[currentUser["c1"]].role = "owner"
       /\ \E t \in DOMAIN users :
             /\ users[t].role # "owner"
             /\ \A a \in DOMAIN users \ {t} : users'[a] = users[a]

\* no account but the owner's is exempt: safeOwnerGuard turns down only
\* targets that are the owner's account
C29_NoOtherExempt ==
    server = "layout"
    => \A a \in DOMAIN users :
          toLowerCase(users[a].username) = "cloudz" => users[a].role = "owner"

\* C29: owner protection.  A moderator action changes a user only when the
\* current user has role owner and the target is not the owner account named
\* cloudz; the owner account is never banned, kicked, muted or renamed; and
\* no other account is exempt from the owner's moderator actions.
C29_OwnerProtection ==
    [](C29_OwnerUnharmed /\ C29_NoOtherExempt) /\ [][C29_OnlyByOwner]_vars

\* ------------------------------------------------------------------ C30
\* the two users of a dm chat, as an unordered pair
C30_Pair(id) == {chats[id].userIds[1], chats[id].userIds[2]}

\* at most one dm per unordered pair, and a call for a pair returns the same
\* chat in either order of its arguments
C30_OnePerPair ==
    server = "api1"
    => /\ \A x, y \in Dms : C30_Pair(x) = C30_Pair(y) => x = y
       /\ \A a, b \in users : createDMId(a, b) = createDMId(b, a)
       /\ \A x \in Dms : createDMId(chats[x].userIds[2], chats[x].userIds[1]) = x

\* a step that changes the chats adds one chat and keeps the others; a dm is
\* added only for a pair that had none, under a new id with an empty history;
\* every history there was stays as it was
C30_Step ==
    (server = "api1" /\ chats' # chats)
    => /\ DOMAIN chats \subseteq DOMAIN chats'
       /\ Cardinality(DOMAIN chats' \ DOMAIN chats) = 1
       /\ \A x \in DOMAIN chats : chats'[x] = chats[x]
       /\ \A x \in DOMAIN messages : Hist(x)' = Hist(x)
       /\ \A x \in DOMAIN chats' \ DOMAIN chats :
             /\ x \notin DOMAIN messages
             /\ Hist(x)' = <<>>
             /\ chats'[x].type = "dm"
                => \A y \in Dms :
                      {chats'[x].userIds[1], chats'[x].userIds[2]} # C30_Pair(y)

\* C30: createDM is symmetric and idempotent.  createDM(a, b) and
\* createDM(b, a) return the same chat; a repeated call for a pair adds no
\* chat and leaves the history as it was; there is at most one dm chat per
\* unordered pair of users.
C30_CreateDMSymmetric == []C30_OnePerPair /\ [][C30_Step]_vars

\* both users opened the dm with each other and with themselves: three dm
\* chats, and the one between u1 and u2 holds a message
C30_Witness ==
    /\ server = "api1"
    /\ Cardinality(Dms) = 3
    /\ \E x \in Dms :
          /\ C30_Pair(x) = {"u1", "u2"}
          /\ Len(Hist(x)) > 0

====
